---- MODULE Spec2Model ----
(***************************************************************************)
(* ExactInvoice.assemble() and ExactInvoice.commit() of                    *)
(* exactonline/elements/invoice.py, run against the remote collaborator    *)
(* (self._api and the customer element) as a sequential state machine.     *)
(*                                                                         *)
(* Python values that may be None are records [t, v]; a Decimal is         *)
(* [sign, digits, exp]; a computed string (str(), strftime, %-formatting)  *)
(* is the sequence of its pieces.                                          *)
(***************************************************************************)
EXTENDS Integers, Sequences, FiniteSets, TLC

\* ------------------------------------------------------------------ bounds

\* Longest ledger line sequence an invoice is given.
MaxLines == 2
\* Number of assemble()/commit() calls made one after the other.
MaxCalls == 2

\* ----------------------------------------------------------- Python values

PyNone == [t |-> "NoneType", v |-> ""]
PyStr(s) == [t |-> "str", v |-> s]
PyUnicode(s) == [t |-> "unicode", v |-> s]

\* bool(x) as `if exact_guid:` takes it: None and '' are false.
Truthy(x) == x.t /= "NoneType" /\ x.v /= ""

\* unicode(x) of a str or unicode object: the same text, as unicode.
unicode(x) == PyUnicode(x.v)

\* Python 2 dict key equality: a str and a unicode of the same (ASCII) text
\* are the same key.
KeyEq(a, b) == a.t \in {"str", "unicode"} /\ b.t \in {"str", "unicode"} /\ a.v = b.v

Dec(sign, digits, exp) == [sign |-> sign, digits |-> digits, exp |-> exp]

DigitChars == <<"0", "1", "2", "3", "4", "5", "6", "7", "8", "9">>

RECURSIVE DigitString(_)
DigitString(ds) ==
    IF ds = <<>> THEN <<>> ELSE <<DigitChars[Head(ds) + 1]>> \o DigitString(Tail(ds))

RECURSIVE Zeros(_)
Zeros(n) == IF n <= 0 THEN <<>> ELSE <<"0">> \o Zeros(n - 1)

\* str(d) of a Decimal with exp <= 0 and more than -6 digits left of the point
\* (no exponent part): sign, integer part, '.', fraction part.
str(d) ==
    LET n == Len(d.digits)
        dotplace == d.exp + n
        sgn == IF d.sign = 1 THEN <<"-">> ELSE <<>>
        intpart == IF dotplace <= 0 THEN <<"0">>
                   ELSE IF dotplace >= n
                        THEN DigitString(d.digits) \o Zeros(dotplace - n)
                        ELSE DigitString(SubSeq(d.digits, 1, dotplace))
        fracpart == IF dotplace <= 0
                    THEN <<".">> \o Zeros(-dotplace) \o DigitString(d.digits)
                    ELSE IF dotplace >= n THEN <<>>
                         ELSE <<".">> \o DigitString(SubSeq(d.digits, dotplace + 1, n))
    IN sgn \o intpart \o fracpart

RECURSIVE ZeroPad(_, _)
\* '%02d' / '%04d' of a non-negative number, as strftime pads %m, %d, %Y.
ZeroPad(n, width) ==
    IF width = 0 THEN <<>>
    ELSE ZeroPad(n \div 10, width - 1) \o <<DigitChars[(n % 10) + 1]>>

\* created_date.strftime('%m-%Y')
strftime_month_year(d) == ZeroPad(d.month, 2) \o <<"-">> \o ZeroPad(d.year, 4)

\* created_date.strftime('%Y-%m-%dT%H:%M:%SZ') of a date (no time of day).
strftime_iso(d) ==
    ZeroPad(d.year, 4) \o <<"-">> \o ZeroPad(d.month, 2) \o <<"-">> \o ZeroPad(d.day, 2)
        \o <<"T">> \o ZeroPad(0, 2) \o <<":">> \o ZeroPad(0, 2) \o <<":">> \o ZeroPad(0, 2)
        \o <<"Z">>

\* ------------------------------------------------------- the invoice (self)

InvoiceNumbers == {"INV-001"}

\* Ledger codes the lines may carry (basestring, line 126).
Codes == {PyStr("4000"), PyStr("8000")}

\* vat_percentage values: the two the code knows, one it does not, and the
\* string '21' of the get_ledger_lines() comment. n is the number spelled.
VatValues == {[t |-> "int", n |-> 0], [t |-> "int", n |-> 21],
              [t |-> "int", n |-> 6], [t |-> "str", n |-> 21]}

\* One ledger line per code and vat_percentage. Its total_amount_excl_vat and
\* description go with the percentage: 100.00 Goods at 0, -0.01 Rounding at
\* 21, 12.5 Books otherwise.
SampleLine(c, p) ==
    [code |-> c,
     vat_percentage |-> p,
     total_amount_excl_vat |->
        IF p = [t |-> "int", n |-> 0] THEN Dec(0, <<1, 0, 0, 0, 0>>, -2)
        ELSE IF p = [t |-> "int", n |-> 21] THEN Dec(1, <<1>>, -2)
        ELSE Dec(0, <<1, 2, 5>>, -1),
     description |->
        IF p = [t |-> "int", n |-> 0] THEN "Goods"
        ELSE IF p = [t |-> "int", n |-> 21] THEN "Rounding"
        ELSE "Books"]

LedgerLines == {SampleLine(c, p) : c \in Codes, p \in VatValues}

RECURSIVE SeqsUpTo(_, _)
SeqsUpTo(S, n) ==
    IF n = 0 THEN {<<>>}
    ELSE LET shorter == SeqsUpTo(S, n - 1)
         IN shorter \cup {Append(s, x) : s \in {q \in shorter : Len(q) = n - 1}, x \in S}

\* The getters a subclass supplies, for the invoice-level fields.
get_total_amount_incl_vat == Dec(0, <<1, 2, 1, 0, 0>>, -2)
get_total_vat == Dec(0, <<2, 1, 0, 0>>, -2)
get_created_date == [year |-> 2024, month |-> 3, day |-> 15]
get_exact_journal == "70"
customer_get_name == "ACME"

\* ------------------------------------------------------------- the remote

\* EntryID values invoices.get may return for a stored invoice.
EntryIDs == {"", "e1"}
\* EntryID the remote assigns to an invoice it creates.
CreatedEntryID == "e2"
\* GUID the remote assigns to a customer it creates.
CreatedCustomerGuid == "c2"

\* The remote ledger accounts: Code (unicode, from JSON) and ID.
LedgerAccounts == {[Code |-> PyUnicode("4000"), ID |-> "gl-4000"],
                   [Code |-> PyUnicode("8000"), ID |-> "gl-8000"]}

\* Exceptions of the collaborator other than ObjectDoesNotExist.
OtherFailures == {"RemoteError"}
Failures == OtherFailures \cup {"ObjectDoesNotExist"}

VARIABLES
    remoteCustomer,   \* the customer's remote GUID, PyNone when not stored
    remoteInvoices,   \* invoice number -> EntryID of the stored invoice, or PyNone
    remoteLedger,     \* the ledger accounts the remote holds
    calls,            \* number of assemble()/commit() calls begun
    method,           \* the method called: "commit" or "assemble"
    self,             \* the invoice: invoice_number
    ledger_lines,     \* assemble(): what get_ledger_lines() returns, line 122
    pc,               \* position in the call
    exact_guid,       \* commit(): line 163/165
    customer_guid,    \* assemble(): line 86/89
    data,             \* assemble(): the payload, line 92
    ledger_ids,       \* assemble(): line 129, unbound until assigned
    idx,              \* assemble(): position of the loop of line 132
    ret,              \* what the call returned
    exc,              \* the exception the call raised, "" when none
    warnings,         \* warn() calls of this call
    log,              \* remote calls of this call, in order, with outcome
    filterArgs,       \* code__in arguments of ledgeraccounts.filter
    submitted,        \* arguments of invoices.create / invoices.update
    customerCommits   \* customer.commit() over all calls: how many stored the
                      \* customer, how many were made with the customer stored

vars == <<remoteCustomer, remoteInvoices, remoteLedger, calls, method, self, ledger_lines, pc,
          exact_guid, customer_guid, data, ledger_ids, idx, ret, exc, warnings,
          log, filterArgs, submitted, customerCommits>>

remoteVars == <<remoteCustomer, remoteInvoices, remoteLedger>>

Unbound == [bound |-> FALSE, map |-> {}]
NoData == [k \in {} |-> ""]
NoReturn == [kind |-> "none", value |-> NoData]

Logged(op, out) == Append(log, [op |-> op, out |-> out])

get_invoice_number == self.invoice_number
\* The subclass hints the number it knows the invoice by.
hint_exact_invoice_number == self.invoice_number

Init ==
    /\ remoteCustomer \in {PyNone, PyStr("c1")}
    /\ remoteInvoices \in [InvoiceNumbers -> {PyNone} \cup {PyStr(e) : e \in EntryIDs}]
    /\ remoteLedger \in SUBSET LedgerAccounts
    /\ calls = 0
    /\ method = "commit"
    /\ self = [invoice_number |-> "INV-001"]
    /\ ledger_lines = <<>>
    /\ pc = "idle"
    /\ exact_guid = PyNone
    /\ customer_guid = PyNone
    /\ data = NoData
    /\ ledger_ids = Unbound
    /\ idx = 1
    /\ ret = NoReturn
    /\ exc = ""
    /\ warnings = 0
    /\ log = <<>>
    /\ filterArgs = <<>>
    /\ submitted = <<>>
    /\ customerCommits = [stored |-> 0, whileStored |-> 0]

\* The call raises e: nothing below the raise runs.
Raise(e) == /\ exc' = e
            /\ pc' = "raised"

\* A caller calls commit() or assemble() on a newly built invoice.
Call(m, number) ==
    /\ pc = "idle"
    /\ calls < MaxCalls
    /\ calls' = calls + 1
    /\ method' = m
    /\ self' = [invoice_number |-> number]
    /\ pc' = IF m = "commit" THEN "commit" ELSE "assemble"
    /\ UNCHANGED <<remoteVars, ledger_lines, exact_guid, customer_guid, data,
                   ledger_ids, idx, ret, exc, warnings, log, filterArgs,
                   submitted, customerCommits>>

Begin ==
    \E m \in {"commit", "assemble"}, number \in InvoiceNumbers :
        Call(m, number)

\* The call has returned or raised: its locals and the invoice object go out
\* of scope; what the remote holds stays.
End ==
    /\ pc \in {"returned", "raised"}
    /\ pc' = "idle"
    /\ method' = "commit"
    /\ self' = [invoice_number |-> "INV-001"]
    /\ ledger_lines' = <<>>
    /\ exact_guid' = PyNone
    /\ customer_guid' = PyNone
    /\ data' = NoData
    /\ ledger_ids' = Unbound
    /\ idx' = 1
    /\ ret' = NoReturn
    /\ exc' = ""
    /\ warnings' = 0
    /\ log' = <<>>
    /\ filterArgs' = <<>>
    /\ submitted' = <<>>
    /\ UNCHANGED <<remoteVars, calls, customerCommits>>

\* ------------------------------------------------------------ commit(), 1

\* As CommitCatches, with a bare `except:` in place of line 164.
CommitCatchesAll(e) == TRUE

\* `except ObjectDoesNotExist:` of commit(), line 164.
CommitCatches(e) == e = "ObjectDoesNotExist"

\* As PcAfterGetGuid, with line 167 moved into the create branch.
PcAfterGetGuidCreateOnly(guid) == IF Truthy(guid) THEN "submit" ELSE "assemble"

\* `data = self.assemble()` follows the lookup whatever it found, line 167.
PcAfterGetGuid(guid) == "assemble"

\* What invoices.get(invoice_number=n) can do: answer the stored record, fail
\* with ObjectDoesNotExist when there is none, or fail otherwise.
InvoicesGetOutcomes(n) ==
    (IF remoteInvoices[n] = PyNone THEN {"ObjectDoesNotExist"} ELSE {"ok"})
        \cup OtherFailures

\* commit() lines 162-165 with get_guid() lines 33-36.
commit_get_guid ==
    /\ pc = "commit"
    /\ \E out \in InvoicesGetOutcomes(get_invoice_number) :
        /\ log' = Logged("invoices.get", out)
        /\ IF out = "ok"
           THEN /\ exact_guid' = remoteInvoices[get_invoice_number]
                /\ pc' = PcAfterGetGuid(exact_guid')
                /\ exc' = exc
           ELSE IF CommitCatches(out)
           THEN /\ exact_guid' = PyNone
                /\ pc' = PcAfterGetGuid(exact_guid')
                /\ exc' = exc
           ELSE /\ exact_guid' = exact_guid
                /\ Raise(out)
    /\ UNCHANGED <<remoteVars, calls, method, self, ledger_lines, customer_guid,
                   data, ledger_ids, idx, ret, warnings, filterArgs, submitted,
                   customerCommits>>

\* ------------------------------------------------------------- assemble()

\* What customer.get_guid() can do.
CustomerGetGuidOutcomes ==
    (IF remoteCustomer = PyNone THEN {"ObjectDoesNotExist"} ELSE {"ok"})
        \cup OtherFailures

\* As PcAfterCustomerGetGuid, with line 88 left out.
PcAfterCustomerGetGuidNoCommit(out) ==
    IF out = "ok" THEN "compile"
    ELSE IF out = "ObjectDoesNotExist" THEN "customer_get_guid"
    ELSE "raised"

\* As PcAfterCustomerGetGuid, with lines 88-89 run after the try as well.
PcAfterCustomerGetGuidAlwaysCommit(out) ==
    IF out \in {"ok", "ObjectDoesNotExist"} THEN "customer_commit" ELSE "raised"

\* Lines 85-88: the try around the first customer.get_guid().
PcAfterCustomerGetGuid(out) ==
    IF out = "ok" THEN "compile"
    ELSE IF out = "ObjectDoesNotExist" THEN "customer_commit"
    ELSE "raised"

\* assemble() lines 75-87: the getters, the description, the first lookup.
assemble_customer_get_guid ==
    /\ pc = "assemble"
    /\ \E out \in CustomerGetGuidOutcomes :
        /\ log' = Logged("customer.get_guid", out)
        /\ pc' = PcAfterCustomerGetGuid(out)
        /\ customer_guid' = IF out = "ok" THEN remoteCustomer ELSE customer_guid
        /\ exc' = IF pc' = "raised" THEN out ELSE exc
    /\ UNCHANGED <<remoteVars, calls, method, self, ledger_lines, exact_guid,
                   data, ledger_ids, idx, ret, warnings, filterArgs, submitted,
                   customerCommits>>

\* assemble() line 88: customer.commit(). The remote may store the customer
\* or not, and the call may return or fail, in every combination.
assemble_customer_commit ==
    /\ pc = "customer_commit"
    /\ \E out \in {"ok"} \cup Failures, persisted \in BOOLEAN :
        /\ log' = Logged("customer.commit", out)
        /\ customerCommits' =
            [stored |-> customerCommits.stored + (IF persisted THEN 1 ELSE 0),
             whileStored |-> customerCommits.whileStored
                                + (IF remoteCustomer /= PyNone THEN 1 ELSE 0)]
        /\ remoteCustomer' = IF persisted /\ remoteCustomer = PyNone
                             THEN PyStr(CreatedCustomerGuid)
                             ELSE remoteCustomer
        /\ IF out = "ok"
           THEN /\ pc' = "customer_get_guid"
                /\ exc' = exc
           ELSE Raise(out)
    /\ UNCHANGED <<remoteInvoices, remoteLedger, calls, method, self,
                   ledger_lines, exact_guid, customer_guid, data, ledger_ids,
                   idx, ret, warnings, filterArgs, submitted>>

\* assemble() line 89: the second customer.get_guid(), outside the try.
assemble_customer_get_guid_again ==
    /\ pc = "customer_get_guid"
    /\ \E out \in CustomerGetGuidOutcomes :
        /\ log' = Logged("customer.get_guid", out)
        /\ IF out = "ok"
           THEN /\ customer_guid' = remoteCustomer
                /\ pc' = "compile"
                /\ exc' = exc
           ELSE /\ customer_guid' = customer_guid
                /\ Raise(out)
    /\ UNCHANGED <<remoteVars, calls, method, self, ledger_lines, exact_guid,
                   data, ledger_ids, idx, ret, warnings, filterArgs, submitted,
                   customerCommits>>

\* Line 81: u'%s - %s, %s' % (invoice_number, name, strftime('%m-%Y')).
Description(number, name, date) ==
    <<number, " - ", name, ", ">> \o strftime_month_year(date)

\* Lines 92-119: the payload before the lines.
CompileData(guid) ==
    [AmountDC |-> str(get_total_amount_incl_vat),
     AmountFC |-> str(get_total_amount_incl_vat),
     EntryDate |-> strftime_iso(get_created_date),
     Customer |-> guid,
     Description |-> Description(get_invoice_number, customer_get_name, get_created_date),
     Journal |-> get_exact_journal,
     ReportingPeriod |-> get_created_date.month,
     ReportingYear |-> get_created_date.year,
     SalesEntryLines |-> <<>>,
     VATAmountDC |-> str(get_total_vat),
     VATAmountFC |-> str(get_total_vat),
     YourRef |-> get_invoice_number,
     InvoiceNumber |-> hint_exact_invoice_number]

\* Line 125: `if ledger_lines:`.
NeedsLedgerLookup(lines) == lines /= <<>>

\* As FilterCodes, with the code of the first line alone.
FilterCodesOfFirstLine(lines) == {lines[1].code}

\* Line 128: set([i['code'] for i in ledger_lines]).
FilterCodes(lines) == {lines[i].code : i \in 1..Len(lines)}

\* ledgeraccounts.filter(code__in=codes): the accounts with one of the codes.
ledgeraccounts_filter(codes) ==
    {a \in remoteLedger : \E c \in codes : KeyEq(a.Code, c)}

\* Lines 129-130: dict((unicode(i['Code']), i['ID']) for i in ledger_ids).
LedgerIdDict(accounts) ==
    [bound |-> TRUE, map |-> {<<unicode(a.Code), a.ID>> : a \in accounts}]

\* What get_ledger_lines() returns for this invoice; the calls of lines 122
\* and 132 return the same lines.
get_ledger_lines == SeqsUpTo(LedgerLines, MaxLines)

\* assemble() lines 91-130: compile the payload, fetch the ledger lines and,
\* when there are any, look their codes up in one call.
assemble_fetch_ledger_ids ==
    /\ pc = "compile"
    /\ data' = CompileData(customer_guid)
    /\ ledger_lines' \in get_ledger_lines
    /\ IF NeedsLedgerLookup(ledger_lines')
       THEN \E out \in {"ok"} \cup Failures :
            /\ log' = Logged("ledgeraccounts.filter", out)
            /\ filterArgs' = Append(filterArgs, FilterCodes(ledger_lines'))
            /\ IF out = "ok"
               THEN /\ ledger_ids' =
                        LedgerIdDict(ledgeraccounts_filter(FilterCodes(ledger_lines')))
                    /\ pc' = "lines"
                    /\ exc' = exc
               ELSE /\ ledger_ids' = ledger_ids
                    /\ Raise(out)
       ELSE /\ pc' = "lines"
            /\ UNCHANGED <<log, filterArgs, ledger_ids, exc>>
    /\ UNCHANGED <<remoteVars, calls, method, self, exact_guid, customer_guid,
                   idx, ret, warnings, submitted, customerCommits>>

\* As LedgerIdLookup, with ledger_ids.get(code, '') for line 134.
LedgerIdLookupDefaulting(ids, code) ==
    IF ~ids.bound THEN [exc |-> "UnboundLocalError", id |-> ""]
    ELSE IF \E p \in ids.map : KeyEq(p[1], code)
         THEN [exc |-> "", id |-> (CHOOSE p \in ids.map : KeyEq(p[1], code))[2]]
         ELSE [exc |-> "", id |-> ""]

\* Line 134: ledger_ids[code]. An unbound ledger_ids is an UnboundLocalError,
\* a code that is no key a KeyError.
LedgerIdLookup(ids, code) ==
    IF ~ids.bound THEN [exc |-> "UnboundLocalError", id |-> ""]
    ELSE IF \E p \in ids.map : KeyEq(p[1], code)
         THEN [exc |-> "", id |-> (CHOOSE p \in ids.map : KeyEq(p[1], code))[2]]
         ELSE [exc |-> "KeyError", id |-> ""]

\* `== 0`, `== 21` of lines 143 and 145: a str never equals an int.
PyEqInt(x, k) == x.t = "int" /\ x.n = k

\* As VatCode, with the `else` of line 147 giving the code of 21 percent.
VatCodeDefaulting(p) ==
    IF p.t = "int" /\ p.n = 0 THEN <<"0", " ", " ">> ELSE <<"2", " ", " ">>

\* Lines 143-149: the VATCode of a vat_percentage, <<>> for the raise.
VatCode(p) ==
    IF PyEqInt(p, 0) THEN <<"0", " ", " ">>
    ELSE IF PyEqInt(p, 21) THEN <<"2", " ", " ">>
    ELSE <<>>

\* Lines 152-156: the SalesEntryLines entry of a line.
LineEntry(line, id, vatcode) ==
    [AmountDC |-> str(line.total_amount_excl_vat),
     AmountFC |-> str(line.total_amount_excl_vat),
     Description |-> line.description,
     GLAccount |-> id,
     VATCode |-> vatcode]

\* No entry: the loop body raised.
NoEntry == [AmountDC |-> <<>>, AmountFC |-> <<>>, Description |-> "",
            GLAccount |-> "", VATCode |-> <<>>]

\* As ConvertLine, with lines 143-149 ahead of lines 133-138.
ConvertLineVatFirst(line, ids) ==
    LET found == LedgerIdLookup(ids, line.code)
        vatcode == VatCode(line.vat_percentage)
    IN IF vatcode = <<>> THEN [exc |-> "NotImplementedError", entry |-> NoEntry]
       ELSE IF found.exc = "KeyError" THEN [exc |-> "ExactOnlineError", entry |-> NoEntry]
       ELSE IF found.exc /= "" THEN [exc |-> found.exc, entry |-> NoEntry]
       ELSE [exc |-> "", entry |-> LineEntry(line, found.id, vatcode)]

\* Lines 133-156: one pass of the loop body: the exception it raises, or the
\* entry it appends.
ConvertLine(line, ids) ==
    LET found == LedgerIdLookup(ids, line.code)
        vatcode == VatCode(line.vat_percentage)
    IN IF found.exc = "KeyError" THEN [exc |-> "ExactOnlineError", entry |-> NoEntry]
       ELSE IF found.exc /= "" THEN [exc |-> found.exc, entry |-> NoEntry]
       ELSE IF vatcode = <<>> THEN [exc |-> "NotImplementedError", entry |-> NoEntry]
       ELSE [exc |-> "", entry |-> LineEntry(line, found.id, vatcode)]

\* As AppendLine, with insert(0, line) for line 157.
PrependLine(entries, e) == <<e>> \o entries

\* Line 157: data['SalesEntryLines'].append(line).
AppendLine(entries, e) == Append(entries, e)

\* assemble() lines 132-157: one ledger line.
assemble_line ==
    /\ pc = "lines"
    /\ idx <= Len(ledger_lines)
    /\ LET r == ConvertLine(ledger_lines[idx], ledger_ids)
       IN IF r.exc /= ""
          THEN /\ Raise(r.exc)
               /\ UNCHANGED <<data, idx>>
          ELSE /\ data' = [data EXCEPT !.SalesEntryLines = AppendLine(@, r.entry)]
               /\ idx' = idx + 1
               /\ UNCHANGED <<pc, exc>>
    /\ UNCHANGED <<remoteVars, calls, method, self, ledger_lines, exact_guid,
                   customer_guid, ledger_ids, ret, warnings, log, filterArgs,
                   submitted, customerCommits>>

\* assemble() line 159: return data, to the caller or to commit() line 167.
assemble_return ==
    /\ pc = "lines"
    /\ idx > Len(ledger_lines)
    /\ IF method = "assemble"
       THEN /\ ret' = [kind |-> "data", value |-> data]
            /\ pc' = "returned"
       ELSE /\ ret' = ret
            /\ pc' = "submit"
    /\ UNCHANGED <<remoteVars, calls, method, self, ledger_lines, exact_guid,
                   customer_guid, data, ledger_ids, idx, exc, warnings, log,
                   filterArgs, submitted, customerCommits>>

\* ------------------------------------------------------------ commit(), 2

\* Line 169: `if exact_guid:`.
TakesUpdatePath(guid) == Truthy(guid)

\* Line 171: data.pop('SalesEntryLines').
PopLines(d) == [k \in DOMAIN d \ {"SalesEntryLines"} |-> d[k]]

\* commit() lines 169-185: the update, then the warning.
commit_update ==
    /\ pc = "submit"
    /\ TakesUpdatePath(exact_guid)
    /\ \E out \in {"ok"} \cup Failures :
        /\ log' = Logged("invoices.update", out)
        /\ submitted' = Append(submitted, [op |-> "update", guid |-> exact_guid,
                                           data |-> PopLines(data)])
        /\ data' = PopLines(data)
        /\ IF out = "ok"
           THEN /\ warnings' = warnings + 1
                /\ ret' = [kind |-> "None", value |-> NoData]
                /\ pc' = "returned"
                /\ exc' = exc
           ELSE /\ Raise(out)
                /\ UNCHANGED <<warnings, ret>>
    /\ UNCHANGED <<remoteVars, calls, method, self, ledger_lines, exact_guid,
                   customer_guid, ledger_ids, idx, filterArgs, customerCommits>>

\* commit() lines 186-190: the create; the remote stores the invoice.
commit_create ==
    /\ pc = "submit"
    /\ ~TakesUpdatePath(exact_guid)
    /\ \E out \in {"ok"} \cup Failures :
        /\ log' = Logged("invoices.create", out)
        /\ submitted' = Append(submitted, [op |-> "create", guid |-> PyNone,
                                           data |-> data])
        /\ IF out = "ok"
           THEN /\ remoteInvoices' = [remoteInvoices EXCEPT
                                        ![get_invoice_number] = PyStr(CreatedEntryID)]
                /\ ret' = [kind |-> "record", value |-> data]
                /\ pc' = "returned"
                /\ exc' = exc
           ELSE /\ Raise(out)
                /\ UNCHANGED <<remoteInvoices, ret>>
    /\ UNCHANGED <<remoteCustomer, remoteLedger, calls, method, self,
                   ledger_lines, exact_guid, customer_guid, data, ledger_ids,
                   idx, warnings, filterArgs, customerCommits>>

Next ==
    \/ Begin
    \/ End
    \/ commit_get_guid
    \/ assemble_customer_get_guid
    \/ assemble_customer_commit
    \/ assemble_customer_get_guid_again
    \/ assemble_fetch_ledger_ids
    \/ assemble_line
    \/ assemble_return
    \/ commit_update
    \/ commit_create

Spec == Init /\ [][Next]_vars

\* ------------------------------------------------- what the claims speak of

OpIndices(op) == {i \in 1..Len(log) : log[i].op = op}
Count(op) == Cardinality(OpIndices(op))
Issued(op) == OpIndices(op) /= {}

\* A remote call of this call that failed and was not caught: every failure
\* but ObjectDoesNotExist from invoices.get or from the first
\* customer.get_guid().
Uncaught(i) ==
    /\ log[i].out /= "ok"
    /\ ~ /\ log[i].out = "ObjectDoesNotExist"
         /\ \/ log[i].op = "invoices.get"
            \/ /\ log[i].op = "customer.get_guid"
               /\ \A j \in 1..(i - 1) : log[j].op /= "customer.get_guid"

\* commit() ran to its return statement.
CommitCompleted == method = "commit" /\ pc = "returned"

\* assemble() has the lookup's answer (or needed none) and is in or past the
\* loop over the lines.
LoopEntered ==
    /\ pc \in {"lines", "submit", "returned", "raised"}
    /\ data /= NoData
    /\ ~ /\ Issued("ledgeraccounts.filter")
         /\ log[Len(log)] \in {[op |-> "ledgeraccounts.filter", out |-> f] : f \in Failures}

\* assemble() returned its payload.
AssembleReturned ==
    /\ LoopEntered
    /\ \/ pc \in {"submit", "returned"}
       \/ Issued("invoices.create")
       \/ Issued("invoices.update")

\* The entries assemble() has appended so far.
Entries == IF "SalesEntryLines" \in DOMAIN data THEN data.SalesEntryLines ELSE <<>>

LineIndices == 1..Len(ledger_lines)

\* The remote holds an account for the line's code.
CodeResolves(i) == \E a \in remoteLedger : a.Code.v = ledger_lines[i].code.v
RemoteIdOf(i) == (CHOOSE a \in remoteLedger : a.Code.v = ledger_lines[i].code.v).ID

VatIs(i, k) == ledger_lines[i].vat_percentage = [t |-> "int", n |-> k]
VatSupported(i) == VatIs(i, 0) \/ VatIs(i, 21)

\* Every vat_percentage is an integer, as the data model has it.
IntegerPercentages == \A i \in LineIndices : ledger_lines[i].vat_percentage.t = "int"

NoSubmission ==
    /\ ~Issued("invoices.create")
    /\ ~Issued("invoices.update")
    /\ submitted = <<>>

\* ---------------------------------------------------------------------- C1

CodeMissing(i) == ~CodeResolves(i)
SomeCodeMissing == \E i \in LineIndices : CodeMissing(i)

\* The loop over the lines is over, by return or by raise, with the lookup's
\* answer at hand.
LoopOver == LoopEntered /\ pc /= "lines"

\* C2 as claimed: if any ledger line's code is absent from the lookup's
\* result, assemble() fails with ExactOnlineError and returns no payload, and
\* commit() issues neither invoices.create nor invoices.update.
C2_MissingCodeRaisesExactOnlineError ==
    (LoopOver /\ IntegerPercentages /\ SomeCodeMissing) =>
        /\ pc = "raised"
        /\ exc = "ExactOnlineError"
        /\ ret = NoReturn
        /\ NoSubmission

\* C2 as amended: if any ledger line's code is absent from the lookup's
\* result, assemble() fails and returns no payload, and commit() issues
\* neither create nor update, on the create path and on the update path; the
\* failure is ExactOnlineError unless a line before the first line with an
\* absent code has an unsupported VAT percentage, and then it is
\* NotImplementedError.
C2_MissingCodeAbortsAssembly ==
    (LoopOver /\ SomeCodeMissing) =>
        LET first == CHOOSE i \in LineIndices :
                        CodeMissing(i) /\ \A j \in 1..(i - 1) : ~CodeMissing(j)
        IN /\ pc = "raised"
           /\ ret = NoReturn
           /\ NoSubmission
           /\ exc = IF \E j \in 1..(first - 1) : ~VatSupported(j)
                    THEN "NotImplementedError"
                    ELSE "ExactOnlineError"

\* A commit() on the update path that a line with an absent code, behind a
\* line that converted, has made fail.
C2_Witness ==
    /\ method = "commit"
    /\ Truthy(exact_guid)
    /\ pc = "raised"
    /\ exc = "ExactOnlineError"
    /\ Len(ledger_lines) = 2
    /\ CodeResolves(1)
    /\ CodeMissing(2)
    /\ NoSubmission

\* ---------------------------------------------------------------------- C3

\* C3: within one assemble() call, a first customer.get_guid() that fails
\* with NotFound is followed by exactly one customer.commit() and then by the
\* second customer.get_guid(), whose result is the payload's Customer; a
\* first customer.get_guid() that succeeds is the only one and no
\* customer.commit() is made; customer.commit() is never made twice.
C3_CustomerCreatedOnceBeforeSecondLookup ==
    LET gets == OpIndices("customer.get_guid")
        commits == OpIndices("customer.commit")
    IN /\ Cardinality(commits) <= 1
       /\ Cardinality(gets) <= 2
       /\ \A g \in gets : (\A h \in gets : g <= h) =>
            /\ (log[g].out = "ObjectDoesNotExist" /\ pc /= "customer_commit") =>
                /\ commits = {g + 1}
                /\ \A h \in gets : h /= g => h = g + 2
                /\ (pc /= "customer_get_guid" /\ log[g + 1].out = "ok")
                      => Cardinality(gets) = 2
            /\ log[g].out /= "ObjectDoesNotExist" =>
                /\ commits = {}
                /\ gets = {g}
       /\ (data /= NoData) =>
            /\ data.Customer = remoteCustomer
            /\ data.Customer /= PyNone
            /\ log[CHOOSE g \in gets : \A h \in gets : h <= g].out = "ok"

\* assemble() returned a payload whose Customer is the GUID of the customer
\* that customer.commit() created.
C3_Witness ==
    /\ method = "assemble"
    /\ pc = "returned"
    /\ log[1] = [op |-> "customer.get_guid", out |-> "ObjectDoesNotExist"]
    /\ log[2] = [op |-> "customer.commit", out |-> "ok"]
    /\ log[3] = [op |-> "customer.get_guid", out |-> "ok"]
    /\ ret.kind = "data"
    /\ ret.value.Customer = PyStr(CreatedCustomerGuid)

\* ---------------------------------------------------------------------- C4

LinesFetched == data /= NoData

\* C5: an assemble() call with ledger lines makes exactly one
\* ledgeraccounts.filter call, with the set of the distinct codes of all the
\* lines, before it converts any line; one without ledger lines makes none and
\* returns an empty SalesEntryLines; there is never more than one lookup,
\* however many lines there are.
C5_OneBatchedLedgerLookup ==
    /\ Count("ledgeraccounts.filter") <= 1
    /\ Len(filterArgs) = Count("ledgeraccounts.filter")
    /\ LinesFetched =>
        IF ledger_lines /= <<>>
        THEN /\ Count("ledgeraccounts.filter") = 1
             /\ filterArgs = <<{ledger_lines[i].code : i \in LineIndices}>>
        ELSE /\ Count("ledgeraccounts.filter") = 0
             /\ Entries = <<>>
             /\ pc \in {"lines", "submit", "returned"} \/ ~NoSubmission
             /\ (method = "assemble" /\ pc = "returned")
                    => ret.value.SalesEntryLines = <<>>
    /\ ~LinesFetched => (Count("ledgeraccounts.filter") = 0 /\ idx = 1)
    /\ (idx > 1 \/ Entries /= <<>>) =>
            \E i \in 1..Len(log) : log[i] = [op |-> "ledgeraccounts.filter", out |-> "ok"]

\* assemble() converted lines that all carry one code after a single lookup
\* of that one code.
C5_Witness ==
    /\ pc = "returned"
    /\ Len(ledger_lines) = 2
    /\ \A i \in LineIndices : ledger_lines[i].code = PyStr("4000")
    /\ filterArgs = <<{PyStr("4000")}>>
    /\ Count("ledgeraccounts.filter") = 1
    /\ Len(Entries) = 2

\* ---------------------------------------------------------------------- C6

\* C6: a remote call's failure, other than NotFound from invoices.get or from
\* the first customer.get_guid(), is the last remote call of the call and is
\* what the call raises: nothing is retried and nothing is issued after it.
\* A failure of invoices.get other than NotFound leaves assemble(), create
\* and update undone; NotFound from the second customer.get_guid() is raised
\* and nothing is submitted.
C6_FailuresPropagate ==
    /\ \A i \in 1..Len(log) : Uncaught(i) =>
        /\ i = Len(log)
        /\ pc = "raised"
        /\ exc = log[i].out
        /\ ret = NoReturn
        /\ log[i].op \notin {"invoices.create", "invoices.update"} => NoSubmission
    /\ \A op \in {"invoices.get", "customer.commit", "ledgeraccounts.filter",
                  "invoices.create", "invoices.update"} : Count(op) <= 1
    /\ Count("customer.get_guid") <= 1 + Count("customer.commit")
    /\ (pc = "raised" /\ exc \in Failures) => (log /= <<>> /\ Uncaught(Len(log)))

\* commit() raised the NotFound of the second customer.get_guid(), after a
\* customer.commit() that returned, and submitted nothing.
C6_Witness ==
    /\ method = "commit"
    /\ pc = "raised"
    /\ exc = "ObjectDoesNotExist"
    /\ Len(log) = 4
    /\ log[3] = [op |-> "customer.commit", out |-> "ok"]
    /\ log[4] = [op |-> "customer.get_guid", out |-> "ObjectDoesNotExist"]
    /\ NoSubmission

\* ---------------------------------------------------------------------- C7

\* The part of commit() a remote call belongs to: the identity lookup, the
\* customer resolution of assemble(), its ledger lookup, the submission.
Stage(op) ==
    CASE op = "invoices.get" -> 1
      [] op \in {"customer.get_guid", "customer.commit"} -> 2
      [] op = "ledgeraccounts.filter" -> 3
      [] op \in {"invoices.create", "invoices.update"} -> 4

\* The calls of assemble() that this call has made: each starts with a
\* customer.get_guid() that no customer.commit() precedes directly.
AssembleStarts ==
    {i \in OpIndices("customer.get_guid") : i = 1 \/ log[i - 1].op /= "customer.commit"}

\* C7: the remote calls of a commit() come in the order invoices.get, the
\* calls of assemble() (customer resolution, then the ledger lookup), then
\* the one invoices.create or invoices.update; assemble() is called once, on
\* the update path as on the create path, after the identity lookup and
\* before the submission.
C7_LookupThenAssembleThenSubmit ==
    method = "commit" =>
        /\ \A i, j \in 1..Len(log) : i < j => Stage(log[i].op) <= Stage(log[j].op)
        /\ log /= <<>> => log[1].op = "invoices.get"
        /\ Count("invoices.get") <= 1
        /\ Count("invoices.create") + Count("invoices.update") <= 1
        /\ Cardinality(AssembleStarts) <= 1
        /\ (pc \in {"submit", "returned"} \/ ~NoSubmission) =>
            /\ AssembleStarts = {2}
            /\ LinesFetched
            /\ ledger_lines /= <<>> => Issued("ledgeraccounts.filter")
            /\ \A i \in OpIndices("invoices.create") \cup OpIndices("invoices.update") :
                    i = Len(log)
        /\ pc = "returned" => ~NoSubmission

\* A commit() on the update path made its four remote calls in order.
C7_Witness ==
    /\ method = "commit"
    /\ pc = "returned"
    /\ Truthy(exact_guid)
    /\ log = <<[op |-> "invoices.get", out |-> "ok"],
               [op |-> "customer.get_guid", out |-> "ok"],
               [op |-> "ledgeraccounts.filter", out |-> "ok"],
               [op |-> "invoices.update", out |-> "ok"]>>

\* ---------------------------------------------------------------------- C8

\* C8: over all the assemble()/commit() calls made for the customer, no
\* customer.commit() is made while the remote holds the customer, so at most
\* one customer.commit() stores it: creation is attempted again only when no
\* earlier attempt persisted, also after a call that failed between creating
\* the customer and submitting the invoice.
C8_CustomerCreatedAtMostOnce ==
    /\ customerCommits.whileStored = 0
    /\ customerCommits.stored <= 1
    /\ customerCommits.stored = 1 => remoteCustomer = PyStr(CreatedCustomerGuid)

\* A second call finds the customer that the first call created before it
\* ended with no invoice submitted, and goes on without customer.commit().
C8_Witness ==
    /\ calls = 2
    /\ customerCommits.stored = 1
    /\ remoteInvoices[get_invoice_number] = PyNone
    /\ pc = "compile"
    /\ ~Issued("customer.commit")
    /\ customer_guid = PyStr(CreatedCustomerGuid)

\* ---------------------------------------------------------------------- C9

\* The text of the sample amounts.
AmountText(d) ==
    IF d = Dec(0, <<1, 0, 0, 0, 0>>, -2) THEN <<"1", "0", "0", ".", "0", "0">>
    ELSE IF d = Dec(1, <<1>>, -2) THEN <<"-", "0", ".", "0", "1">>
    ELSE <<"1", "2", ".", "5">>

\* C9: the payload assemble() returns has one SalesEntryLines entry per
\* ledger line, in the lines' order; the i-th entry has the remote ID of the
\* i-th line's code as GLAccount, the line's description, and the text of the
\* line's total_amount_excl_vat as AmountDC and as AmountFC; lines of one
\* code have one GLAccount.
C9_EntriesFollowLines ==
    LoopEntered =>
        /\ Len(Entries) <= Len(ledger_lines)
        /\ (AssembleReturned /\ "SalesEntryLines" \in DOMAIN data) =>
                Len(Entries) = Len(ledger_lines)
        /\ (method = "assemble" /\ pc = "returned") =>
                (ret.kind = "data" /\ ret.value = data
                    /\ Len(ret.value.SalesEntryLines) = Len(ledger_lines))
        /\ \A i \in 1..Len(Entries) :
            /\ CodeResolves(i)
            /\ Entries[i].GLAccount = RemoteIdOf(i)
            /\ Entries[i].Description = ledger_lines[i].description
            /\ Entries[i].AmountDC = AmountText(ledger_lines[i].total_amount_excl_vat)
            /\ Entries[i].AmountFC = Entries[i].AmountDC
        /\ \A i, j \in 1..Len(Entries) :
                ledger_lines[i].code = ledger_lines[j].code
                    => Entries[i].GLAccount = Entries[j].GLAccount

\* assemble() returned the entries of two lines that differ in code, amount
\* and description.
C9_Witness ==
    /\ method = "assemble"
    /\ pc = "returned"
    /\ Len(ledger_lines) = 2
    /\ ret.value.SalesEntryLines[1].GLAccount = "gl-8000"
    /\ ret.value.SalesEntryLines[1].AmountDC = <<"-", "0", ".", "0", "1">>
    /\ ret.value.SalesEntryLines[1].Description = "Rounding"
    /\ ret.value.SalesEntryLines[2].GLAccount = "gl-4000"
    /\ ret.value.SalesEntryLines[2].AmountFC = <<"1", "0", "0", ".", "0", "0">>
    /\ ret.value.SalesEntryLines[2].Description = "Goods"

\* --------------------------------------------------------------------- C10

Offending(i) == CodeMissing(i) \/ ~VatSupported(i)

\* C10: assemble() raises on a ledger line (ExactOnlineError,
\* NotImplementedError) only after the customer resolution and the ledger
\* lookup have run; nothing is undone or submitted, and a customer that
\* customer.commit() created stays; the first offending line decides the
\* failure, and a line with a missing code and an unsupported percentage
\* raises ExactOnlineError.
C10_LineFailureAfterRemoteWork ==
    (pc = "raised" /\ exc \in {"ExactOnlineError", "NotImplementedError"}) =>
        /\ Issued("customer.get_guid")
        /\ log[Len(log)] = [op |-> "ledgeraccounts.filter", out |-> "ok"]
        /\ customer_guid = remoteCustomer
        /\ remoteCustomer /= PyNone
        /\ (\E i \in OpIndices("customer.commit") : log[i].out = "ok")
                => (remoteCustomer = PyStr(CreatedCustomerGuid)
                        /\ customerCommits.stored = 1)
        /\ NoSubmission
        /\ ret = NoReturn
        /\ \E k \in LineIndices :
            /\ Offending(k)
            /\ \A j \in 1..(k - 1) : ~Offending(j)
            /\ Len(Entries) = k - 1
            /\ exc = IF CodeMissing(k) THEN "ExactOnlineError" ELSE "NotImplementedError"

\* A commit() that created the customer and then raised ExactOnlineError on
\* a first line with a missing code and 6 percent: the customer is stored and
\* no invoice is submitted.
C10_Witness ==
    /\ method = "commit"
    /\ pc = "raised"
    /\ exc = "ExactOnlineError"
    /\ log[3] = [op |-> "customer.commit", out |-> "ok"]
    /\ remoteCustomer = PyStr(CreatedCustomerGuid)
    /\ remoteInvoices[get_invoice_number] = PyNone
    /\ CodeMissing(1)
    /\ VatIs(1, 6)
    /\ NoSubmission

====
